---- MODULE Spec2Model ----
(***************************************************************************)
(* Model of 04_data_loading.py: the CSV cleaner (load_and_clean_data), the *)
(* loader with its reconciliation fallback (load_data_to_database), the    *)
(* verifier (verify_data_load) and the pipeline (main).                    *)
(*                                                                         *)
(* A CSV cell is the sequence of its characters (<<>> is an empty cell).   *)
(* A dataframe cell is a record [k, n, s]: k is the kind of the value, n   *)
(* its number (in hundredths for "num", whole for "int", 0/1 for "bool")   *)
(* and s the text it was read from.                                        *)
(***************************************************************************)
EXTENDS Integers, Sequences, FiniteSets, TLC

\* ------------------------------------------------------------ bounds
MaxRows == 2      \* rows of a CSV file given to the cleaner alone
MaxBatch == 2     \* rows of a CSV file given to the pipeline

\* numbers are kept with two decimal places, in hundredths: 19.05 is 1905
Scale == 10 * 10

\* ------------------------------------------------------------ columns
\* keys of column_mapping
SourceColumns ==
    {"ID", "latitude", "longitude", "city", "postal_code", "country",
     "access_comments", "num_charging_points", "is_operational",
     "last_verified_date", "creation_date", "usage_cost",
     "is_pay_at_location", "is_membership_required", "operator", "county",
     "original_text", "is_free", "is_paid_unspecified", "is_inaccessible",
     "ac_price_huf_kwh", "dc_price_huf_kwh", "time_based_price_huf_min",
     "additional_fees", "notes", "tesla_type"}

\* column_mapping: only 'ID' changes its name
column_mapping(c) == IF c = "ID" THEN "station_id" ELSE c

bool_cols ==
    {"is_operational", "is_free", "is_paid_unspecified", "is_inaccessible",
     "is_pay_at_location", "is_membership_required"}

date_cols == {"last_verified_date", "creation_date"}

numeric_cols == {"ac_price_huf_kwh", "dc_price_huf_kwh", "time_based_price_huf_min"}

text_cols ==
    {"city", "county", "country", "operator", "usage_cost", "access_comments",
     "notes", "tesla_type", "original_text"}

db_columns ==
    {"station_id", "latitude", "longitude", "city", "county", "postal_code",
     "country", "operator", "is_operational", "num_charging_points", "is_free",
     "is_paid_unspecified", "is_inaccessible", "is_pay_at_location",
     "is_membership_required", "ac_price_huf_kwh", "dc_price_huf_kwh",
     "time_based_price_huf_min", "additional_fees", "usage_cost",
     "last_verified_date", "creation_date", "access_comments", "notes",
     "tesla_type", "original_text"}

\* a SET list that names every column but the key
update_every_column == db_columns \ {"station_id"}

\* the SET list of INSERT ... ON CONFLICT (station_id) DO UPDATE
update_columns ==
    {"latitude", "longitude", "city", "county", "postal_code", "country",
     "operator", "is_operational", "num_charging_points", "last_verified_date"}

\* ------------------------------------------------------------ cells
Cell(k, n, s) == [k |-> k, n |-> n, s |-> s]
Null == Cell("null", 0, <<>>)
IsNull(c) == c.k = "null"

Digits == {"0", "1", "2", "3", "4", "5", "6", "7", "8", "9"}

DigitVal(c) ==
    CASE c = "0" -> 0 [] c = "1" -> 1 [] c = "2" -> 2 [] c = "3" -> 3
      [] c = "4" -> 4 [] c = "5" -> 5 [] c = "6" -> 6 [] c = "7" -> 7
      [] c = "8" -> 8 [] c = "9" -> 9

IsDigits(s) == Len(s) > 0 /\ \A i \in 1..Len(s) : s[i] \in Digits

RECURSIVE DigitsVal(_)
DigitsVal(s) ==
    IF s = <<>> THEN 0
    ELSE 10 * DigitsVal(SubSeq(s, 1, Len(s) - 1)) + DigitVal(s[Len(s)])

\* the position of the decimal point of a text "ddd.d" or "ddd.dd", else 0
DotAt(s) ==
    IF \E i \in 2..(Len(s) - 1) :
          /\ s[i] = "."
          /\ IsDigits(SubSeq(s, 1, i - 1))
          /\ IsDigits(SubSeq(s, i + 1, Len(s)))
          /\ Len(s) - i <= 2
    THEN CHOOSE i \in 2..(Len(s) - 1) : s[i] = "."
    ELSE 0

\* the number a text denotes: a "num" cell in hundredths, an "inf" cell,
\* or Null (NaN) when the text is no number
ParseNumber(s) ==
    IF s = <<"i", "n", "f">> THEN Cell("inf", 0, s)
    ELSE IF IsDigits(s) THEN Cell("num", Scale * DigitsVal(s), s)
    ELSE IF DotAt(s) > 0 THEN
        LET i == DotAt(s)
            whole == DigitsVal(SubSeq(s, 1, i - 1))
            frac == SubSeq(s, i + 1, Len(s))
        IN  Cell("num",
                 Scale * whole + (IF Len(frac) = 1 THEN 10 ELSE 1) * DigitsVal(frac),
                 s)
    ELSE Null

TrueText == <<"T", "r", "u", "e">>
FalseText == <<"F", "a", "l", "s", "e">>

\* the calendar date a text "dddd-dd-dd" denotes (n is yyyymmdd), else Null (NaT)
ParseDate(s) ==
    IF /\ Len(s) = 10
       /\ s[5] = "-" /\ s[8] = "-"
       /\ IsDigits(SubSeq(s, 1, 4)) /\ IsDigits(SubSeq(s, 6, 7))
       /\ IsDigits(SubSeq(s, 9, 10))
       /\ DigitsVal(SubSeq(s, 6, 7)) \in 1..12
       /\ DigitsVal(SubSeq(s, 9, 10)) \in 1..28
    THEN Cell("date",
              10000 * DigitsVal(SubSeq(s, 1, 4)) + 100 * DigitsVal(SubSeq(s, 6, 7))
                + DigitsVal(SubSeq(s, 9, 10)),
              s)
    ELSE Null

\* ------------------------------------------------------------ dataframes
\* A dataframe is [columns, rows]; a row is [idx, c]: its index label and
\* its cells by column name.
Frame(cols, rows) == [columns |-> cols, rows |-> rows]

\* the rows at the positions of keep, in their order
RECURSIVE KeepRows(_, _, _)
KeepRows(rows, keep, i) ==
    IF i > Len(rows) THEN <<>>
    ELSE (IF i \in keep THEN <<rows[i]>> ELSE <<>>) \o KeepRows(rows, keep, i + 1)

\* df.dropna(subset=cols)
dropna(df, cols) ==
    Frame(df.columns,
          KeepRows(df.rows,
                   {i \in 1..Len(df.rows) : \A x \in cols : ~IsNull(df.rows[i].c[x])},
                   1))

\* ------------------------------------------------------------ pd.read_csv
\* the dtype pandas infers for a column from its non-empty cells
ColumnKind(texts) ==
    LET filled == {t \in texts : t # <<>>}
    IN  IF filled # {} /\ filled \subseteq {TrueText, FalseText} THEN "bool"
        ELSE IF \A t \in filled : ~IsNull(ParseNumber(t)) THEN "number"
        ELSE "object"

read_cell(kind, t) ==
    IF t = <<>> THEN Null
    ELSE IF kind = "bool" THEN Cell("bool", IF t = TrueText THEN 1 ELSE 0, t)
    ELSE IF kind = "number" THEN ParseNumber(t)
    ELSE Cell("text", 0, t)

\* csv is [columns, rows], rows a sequence of functions from column to text
read_csv(csv) ==
    LET kind(col) == ColumnKind({csv.rows[i][col] : i \in 1..Len(csv.rows)})
    IN  Frame(csv.columns,
              [i \in 1..Len(csv.rows) |->
                  [idx |-> i,
                   c |-> [col \in csv.columns |-> read_cell(kind(col), csv.rows[i][col])]]])

\* ------------------------------------------------------------ coercions
\* pd.to_numeric(errors='coerce') of one cell: NaN (Null) when it is no number
to_numeric(cell) ==
    CASE cell.k = "null" -> Null
      [] cell.k \in {"num", "inf"} -> cell
      [] cell.k = "bool" -> Cell("num", Scale * cell.n, cell.s)
      [] cell.k = "text" -> ParseNumber(cell.s)
      [] OTHER -> Null

\* fillna(False).astype(bool) of one cell: a missing cell is False, a number is
\* its truth value, and a text (an object column holds only non-empty texts)
\* is the truth value of a non-empty str
fillna_astype_bool(cell) ==
    CASE cell.k = "null" -> Cell("bool", 0, cell.s)
      [] cell.k = "bool" -> cell
      [] cell.k = "num" -> Cell("bool", IF cell.n # 0 THEN 1 ELSE 0, cell.s)
      [] cell.k = "inf" -> Cell("bool", 1, cell.s)
      [] OTHER -> Cell("bool", IF Len(cell.s) > 0 THEN 1 ELSE 0, cell.s)

\* pd.to_datetime(errors='coerce').dt.date of one cell: NaT (Null) when it is no date
to_datetime_date(cell) ==
    CASE cell.k = "text" -> ParseDate(cell.s)
      [] cell.k = "num" -> Cell("date", 19700101, cell.s)
      [] OTHER -> Null

\* astype('int64') of a float cell truncates towards zero
astype_int64(cell) == Cell("int", cell.n \div Scale, cell.s)

NanText == <<"n", "a", "n">>

\* astype(str).replace('nan', '') and then replace('', None)
clean_text(cell) ==
    LET str == IF IsNull(cell) THEN NanText ELSE cell.s
        unnan == IF str = NanText THEN <<>> ELSE str
    IN  IF unnan = <<>> THEN Null ELSE Cell("text", 0, unnan)

\* the conversion of one cell that a step of the cleaner applies to a column
convert(step, cell) ==
    CASE step = "to_numeric" -> to_numeric(cell)
      [] step = "astype_bool" -> fillna_astype_bool(cell)
      [] step = "to_datetime" -> to_datetime_date(cell)
      [] step = "astype_int64" -> astype_int64(cell)
      [] step = "clean_text" -> clean_text(cell)

\* df[col] = <step>(df[col]) for each column of cols that exists
MapColumns(df, cols, step) ==
    Frame(df.columns,
          [i \in 1..Len(df.rows) |->
              [idx |-> df.rows[i].idx,
               c |-> [x \in df.columns |->
                        IF x \in cols THEN convert(step, df.rows[i].c[x])
                        ELSE df.rows[i].c[x]]]])

\* ------------------------------------------------------------ load_and_clean_data
\* df.rename(columns=existing_columns)
rename_columns(df) ==
    LET old(nc) == IF nc = "station_id" /\ "ID" \in df.columns THEN "ID" ELSE nc
        cols == {IF c \in SourceColumns THEN column_mapping(c) ELSE c : c \in df.columns}
    IN  Frame(cols,
              [i \in 1..Len(df.rows) |->
                  [idx |-> df.rows[i].idx,
                   c |-> [nc \in cols |-> df.rows[i].c[old(nc)]]]])

convert_bool_cols(df) == MapColumns(df, bool_cols, "astype_bool")
convert_date_cols(df) == MapColumns(df, date_cols, "to_datetime")
convert_numeric_cols(df) == MapColumns(df, numeric_cols, "to_numeric")

\* astype('int64') raises on a non-finite value
station_id_raises(df) ==
    /\ "station_id" \in df.columns
    /\ LET d == dropna(MapColumns(df, {"station_id"}, "to_numeric"), {"station_id"})
       IN  \E i \in 1..Len(d.rows) : d.rows[i].c["station_id"].k = "inf"

\* "Ensure station_id is integer"
ensure_station_id(df) ==
    IF "station_id" \notin df.columns THEN df
    ELSE MapColumns(dropna(MapColumns(df, {"station_id"}, "to_numeric"), {"station_id"}),
                    {"station_id"}, "astype_int64")

\* df.dropna(subset=['latitude', 'longitude']) raises KeyError without the columns
coordinates_raise(df) == ~({"latitude", "longitude"} \subseteq df.columns)

\* "Ensure coordinates are valid" and "Remove rows with invalid coordinates"
ensure_coordinates(df) ==
    dropna(MapColumns(dropna(df, {"latitude", "longitude"}),
                      {"latitude", "longitude"}, "to_numeric"),
           {"latitude", "longitude"})

clean_text_cols(df) == MapColumns(df, text_cols, "clean_text")

\* final_df = df[[col for col in db_columns if col in df.columns]]
select_db_columns(df) ==
    LET cols == db_columns \cap df.columns
    IN  Frame(cols,
              [i \in 1..Len(df.rows) |->
                  [idx |-> df.rows[i].idx, c |-> [x \in cols |-> df.rows[i].c[x]]]])

NoFile == [columns |-> {}, rows |-> <<>>, found |-> FALSE]
EmptyFrame == Frame({}, <<>>)

\* lines 49-138: the steps of load_and_clean_data on the dataframe read
clean_frame(df0) ==
    LET df1 == rename_columns(df0)
        df2 == convert_bool_cols(df1)
        df3 == convert_date_cols(df2)
        df4 == convert_numeric_cols(df3)
    IN  IF station_id_raises(df4)
        THEN [status |-> "exit", error |-> "Exception", df |-> EmptyFrame]
        ELSE LET df5 == ensure_station_id(df4)
             IN  IF coordinates_raise(df5)
                 THEN [status |-> "exit", error |-> "Exception", df |-> EmptyFrame]
                 ELSE [status |-> "ok", error |-> "",
                       df |-> select_db_columns(clean_text_cols(ensure_coordinates(df5)))]

\* a cleaner whose FileNotFoundError handler logs and goes on with no rows
load_and_clean_data_without_exit(csv) ==
    IF ~csv.found THEN [status |-> "ok", error |-> "", df |-> EmptyFrame]
    ELSE clean_frame(read_csv(csv))

\* The result of load_and_clean_data: status "ok" with the cleaned dataframe,
\* or status "exit" (sys.exit(1)) with the error that was caught.
load_and_clean_data(csv) ==
    IF ~csv.found THEN [status |-> "exit", error |-> "FileNotFoundError", df |-> EmptyFrame]
    ELSE clean_frame(read_csv(csv))

\* ------------------------------------------------------------ inputs
T7 == <<"7">>
T8 == <<"8">>
T75 == <<"7", ".", "5">>
T10 == <<"1", "0">>
T20 == <<"2", "0">>
T475 == <<"4", "7", ".", "5">>
T1905 == <<"1", "9", ".", "0", "5">>
TInf == <<"i", "n", "f">>
TAbc == <<"a", "b", "c">>
TMaybe == <<"m", "a", "y", "b", "e">>
TBuda == <<"B", "u", "d", "a">>
TPest == <<"P", "e", "s", "t">>
TDate == <<"2", "0", "2", "4", "-", "0", "1", "-", "0", "5">>
TDate2 == <<"2", "0", "2", "5", "-", "1", "1", "-", "2", "0">>

CsvColumns == SourceColumns \cup {"unrecognized"}

\* one line of a CSV file with every column
MkRow(id, lat, lon, op, flag, txt, price, date, pts) ==
    [col \in CsvColumns |->
        CASE col = "ID" -> id
          [] col = "latitude" -> lat
          [] col = "longitude" -> lon
          [] col = "is_operational" -> op
          [] col \in bool_cols -> flag
          [] col \in numeric_cols -> price
          [] col \in date_cols -> date
          [] col \in {"num_charging_points", "postal_code"} -> pts
          [] OTHER -> txt]

Station7 == MkRow(T7, T475, T1905, <<>>, TrueText, TBuda, T475, TDate, <<"2">>)
Station7Again == MkRow(T7, T10, T20, TrueText, FalseText, TPest, TAbc, TDate2, <<"4">>)
Station8 == MkRow(T8, T10, T20, FalseText, <<"0">>, NanText, <<>>, TAbc, <<>>)
TextId == MkRow(TAbc, T10, T20, <<>>, <<>>, TBuda, <<>>, <<>>, <<>>)
EmptyLat == MkRow(T8, <<>>, T20, <<>>, <<>>, TBuda, <<>>, <<>>, <<>>)
TextLon == MkRow(T8, T10, TAbc, <<>>, <<>>, <<>>, <<>>, <<>>, <<>>)
FractionId == MkRow(T75, T10, T20, TrueText, FalseText, TPest, T10, TDate, <<"2">>)
TextFlag == MkRow(T8, T10, T20, TMaybe, TMaybe, TPest, T10, TDate, <<"2">>)
InfiniteId == MkRow(TInf, T10, T20, <<>>, <<>>, <<>>, <<>>, <<>>, <<>>)
EmptyId == MkRow(<<>>, T10, T20, TrueText, <<"0">>, TBuda, <<>>, <<>>, <<>>)

SampleRows ==
    {Station7, Station7Again, Station8, TextId, EmptyLat, TextLon, FractionId,
     TextFlag, InfiniteId, EmptyId}

ColumnSets ==
    {CsvColumns, SourceColumns, CsvColumns \ {"ID"}, CsvColumns \ {"latitude"},
     CsvColumns \ {"longitude"}, CsvColumns \ {"is_free", "notes", "creation_date"}}

Restrict(row, cols) == [c \in cols |-> row[c]]

Csv(cols, rows) ==
    [columns |-> cols, rows |-> [i \in 1..Len(rows) |-> Restrict(rows[i], cols)],
     found |-> TRUE]

RowSeqs(n) == UNION {[1..k -> SampleRows] : k \in 0..n}

CsvInputs == {Csv(cols, rows) : cols \in ColumnSets, rows \in RowSeqs(MaxRows)}

\* ------------------------------------------------------------ the store
\* A row of the stations table has every column of the schema; a column the
\* batch does not carry is NULL.
TableRow(df, i) ==
    [c \in db_columns |-> IF c \in df.columns THEN df.rows[i].c[c] ELSE Null]

BatchRows(df) == [i \in 1..Len(df.rows) |-> TableRow(df, i)]

Ids(table) == {r["station_id"].n : r \in {x \in table : ~IsNull(x["station_id"])}}

\* station_id is required: a row without it is rejected
NullKey(batch) == \E i \in 1..Len(batch) : IsNull(batch[i]["station_id"])

\* two rows of the batch carry the same station_id
RepeatedKey(batch) ==
    \E i, j \in 1..Len(batch) :
        i # j /\ batch[i]["station_id"].n = batch[j]["station_id"].n

\* station_id is unique (ON CONFLICT (station_id) needs the unique index): the
\* insert of a batch is rejected for a key that is null, stored or repeated
ViolatesKey(table, batch) ==
    \/ NullKey(batch)
    \/ \E i \in 1..Len(batch) : batch[i]["station_id"].n \in Ids(table)
    \/ RepeatedKey(batch)

\* INSERT ... ON CONFLICT (station_id) DO UPDATE fails when a staged row has no
\* key or when two staged rows carry the same key (the command cannot affect
\* a row a second time)
MergeFails(batch) == NullKey(batch) \/ RepeatedKey(batch)

\* ON CONFLICT (station_id) DO UPDATE SET <update_columns> = EXCLUDED.<...>
UpdateRow(old, new) ==
    [c \in db_columns |-> IF c \in update_columns THEN new[c] ELSE old[c]]

\* INSERT INTO stations SELECT * FROM temp_stations ON CONFLICT ... DO UPDATE;
\* SELECT * is taken to give the columns in the order of the stations table,
\* as it does for a batch that has every column of db_columns
Merge(table, batch) ==
    LET staged == {batch[i] : i \in 1..Len(batch)}
        hit(r) == {x \in staged : x["station_id"].n = r["station_id"].n}
    IN  {IF ~IsNull(r["station_id"]) /\ hit(r) # {}
         THEN UpdateRow(r, CHOOSE x \in hit(r) : TRUE) ELSE r : r \in table}
        \cup {x \in staged : x["station_id"].n \notin Ids(table)}

\* ------------------------------------------------------------ exceptions
\* The classes a failed to_sql can raise. A key violation is raised by the
\* driver as psycopg2.IntegrityError; a SQLAlchemy engine re-raises driver
\* errors as its own sqlalchemy.exc classes, which derive from SQLAlchemyError.
IntegrityClasses == {"psycopg2.IntegrityError", "sqlalchemy.exc.IntegrityError"}
OtherClasses == {"psycopg2.DataError", "sqlalchemy.exc.OperationalError", "Exception"}

\* the except clauses of load_data_to_database, in their order
handler(class) ==
    CASE class = "psycopg2.IntegrityError" -> "fallback"
      [] class = "psycopg2.DataError" -> "raise"
      [] class \in {"sqlalchemy.exc.IntegrityError", "sqlalchemy.exc.OperationalError"}
           -> "raise"
      [] OTHER -> "raise"

\* ------------------------------------------------------------ state
VARIABLES
    csv,            \* the file given to load_and_clean_data (NoFile before the call)
    cleaned,        \* cleaner alone: its result, status "none" before the call
    pc,             \* main: the call it is about to make, or "finished"/"exited"
    status,         \* exit status of the process (-1 while it runs)
    df,             \* the cleaned dataframe main holds
    stations,       \* the committed rows of the stations table
    stations0,      \* the stations table before the first run
    temp_stations,  \* the scratch table: "absent", "staged" (it holds the rows of
                    \* df) or "stale" (it holds what a failed earlier run staged)
    work,           \* the stations table as the open transaction sees it
    before,         \* the stations table when load_data_to_database was called
    raised,         \* the exception that ended the run ("" when none)
    events,         \* the calls and statements the run has started, in order
    report          \* what verify_data_load logged

vars ==
    <<csv, cleaned, pc, status, df, stations, stations0, temp_stations, work,
      before, raised, events, report>>

NoResult == [status |-> "none", error |-> "", df |-> EmptyFrame]
NoReport == [ran |-> FALSE, ok |-> FALSE, count |-> 0, invalid |-> 0, warned |-> FALSE]

\* the files the pipeline is run on
PipelineRows == {Station7, Station7Again, Station8, EmptyLat, FractionId}
PipelineColumns == {CsvColumns, CsvColumns \ {"ID"}}
PipelineInputs ==
    {NoFile} \cup
    {Csv(cols, rows) : cols \in PipelineColumns,
                       rows \in UNION {[1..k -> PipelineRows] : k \in 0..MaxBatch}}

\* a row some earlier tool left without a latitude
CorruptRow ==
    [c \in db_columns |->
        CASE c = "station_id" -> Cell("int", 99, <<"9", "9">>)
          [] c = "longitude" -> Cell("num", 20 * Scale, T20)
          [] OTHER -> Null]

InitialTables == {{}, {CorruptRow}}

Init ==
    /\ csv = NoFile
    /\ cleaned = NoResult
    /\ pc = "connect"
    /\ status = -1
    /\ df = EmptyFrame
    /\ stations \in InitialTables
    /\ stations0 = stations
    /\ temp_stations = "absent"
    /\ work = stations
    /\ before = stations
    /\ raised = ""
    /\ events = <<>>
    /\ report = NoReport

\* the run ends with exit status 1: sys.exit(1), or an exception leaving main
Exit(class) ==
    /\ pc' = "exited"
    /\ status' = 1
    /\ raised' = class

\* main, line 243: create_db_connection
create_db_connection ==
    /\ pc = "connect"
    /\ events' = Append(events, "connect")
    /\ \E ok \in BOOLEAN :
          IF ok THEN pc' = "clean" /\ UNCHANGED <<status, raised>>
          ELSE Exit("SystemExit")
    /\ UNCHANGED <<csv, cleaned, df, stations, stations0, temp_stations, work,
                   before, report>>

\* main, line 246: load_and_clean_data
clean ==
    /\ pc = "clean"
    /\ events' = Append(events, "clean")
    /\ \E file \in PipelineInputs :
          LET r == load_and_clean_data(file)
          IN  /\ csv' = file
              /\ IF r.status = "ok"
                 THEN pc' = "insert" /\ df' = r.df /\ UNCHANGED <<status, raised>>
                 ELSE Exit(r.error) /\ UNCHANGED df
    /\ UNCHANGED <<cleaned, stations, stations0, temp_stations, work, before, report>>

\* load_data_to_database, lines 149-163 and 198-206: the bulk insert in one
\* transaction (chunksize=1000 rows per statement) and the except clauses
bulk_insert ==
    /\ pc = "insert"
    /\ events' = Append(events, "insert")
    /\ before' = stations
    /\ LET batch == BatchRows(df)
       IN  \E out \in (IF ViolatesKey(stations, batch) THEN IntegrityClasses
                       ELSE {"ok"}) \cup OtherClasses :
              IF out = "ok"
              THEN /\ stations' = stations \cup {batch[i] : i \in 1..Len(batch)}
                   /\ work' = stations'
                   /\ pc' = "verify"
                   /\ UNCHANGED <<status, raised>>
              ELSE IF handler(out) = "fallback"
              THEN /\ pc' = "stage"
                   /\ UNCHANGED <<stations, work, status, raised>>
              ELSE Exit(out) /\ UNCHANGED <<stations, work>>
    /\ UNCHANGED <<csv, cleaned, df, stations0, temp_stations, report>>

\* line 169: df.to_sql('temp_stations', conn, if_exists='replace') in a
\* transaction of its own
stage ==
    /\ pc = "stage"
    /\ events' = Append(events, "stage")
    /\ \E ok \in BOOLEAN :
          IF ok
          THEN /\ temp_stations' = "staged"
               /\ pc' = "merge"
               /\ UNCHANGED <<status, raised>>
          ELSE Exit("Exception") /\ UNCHANGED temp_stations
    /\ UNCHANGED <<csv, cleaned, df, stations, stations0, work, before, report>>

\* a merge that is committed as soon as it has run
merge_autocommit ==
    /\ pc = "merge"
    /\ events' = Append(events, "merge")
    /\ temp_stations = "staged"
    /\ \E ok \in (IF MergeFails(BatchRows(df)) THEN {FALSE} ELSE BOOLEAN) :
          IF ok
          THEN /\ stations' = Merge(stations, BatchRows(df))
               /\ work' = stations'
               /\ pc' = "drop"
               /\ UNCHANGED <<status, raised>>
          ELSE Exit("Exception") /\ UNCHANGED <<work, stations>>
    /\ UNCHANGED <<csv, cleaned, df, stations0, temp_stations, before, report>>

\* lines 172-186: the merge, in the connection's transaction
merge ==
    /\ pc = "merge"
    /\ events' = Append(events, "merge")
    /\ temp_stations = "staged"
    /\ \E ok \in (IF MergeFails(BatchRows(df)) THEN {FALSE} ELSE BOOLEAN) :
          IF ok
          THEN /\ work' = Merge(stations, BatchRows(df))
               /\ pc' = "drop"
               /\ UNCHANGED <<status, raised>>
          ELSE Exit("Exception") /\ UNCHANGED work
    /\ UNCHANGED <<csv, cleaned, df, stations, stations0, temp_stations, before,
                   report>>

\* line 189: DROP TABLE temp_stations, in the same transaction; a failure
\* leaves the with block, which rolls the transaction back
drop ==
    /\ pc = "drop"
    /\ events' = Append(events, "drop")
    /\ \E ok \in BOOLEAN :
          IF ok THEN pc' = "commit" /\ UNCHANGED <<work, status, raised>>
          ELSE Exit("Exception") /\ work' = stations
    /\ UNCHANGED <<csv, cleaned, df, stations, stations0, temp_stations, before,
                   report>>

\* line 190: conn.commit()
commit ==
    /\ pc = "commit"
    /\ events' = Append(events, "commit")
    /\ \E ok \in BOOLEAN :
          IF ok
          THEN /\ stations' = work
               /\ temp_stations' = "absent"
               /\ pc' = "verify"
               /\ UNCHANGED <<work, status, raised>>
          ELSE /\ Exit("Exception")
               /\ work' = stations
               /\ UNCHANGED <<stations, temp_stations>>
    /\ UNCHANGED <<csv, cleaned, df, stations0, before, report>>

NullCoordinates(table) ==
    {r \in table : IsNull(r["latitude"]) \/ IsNull(r["longitude"])}

\* a verifier that lets a query error leave main
verify_data_load_raising ==
    /\ pc = "verify"
    /\ events' = Append(events, "verify")
    /\ \E ok \in BOOLEAN :
          IF ok
          THEN /\ report' =
                    [ran |-> TRUE, ok |-> TRUE, count |-> Cardinality(stations),
                     invalid |-> Cardinality(NullCoordinates(stations)),
                     warned |-> Cardinality(NullCoordinates(stations)) > 0]
               /\ pc' = "finished"
               /\ status' = 0
               /\ UNCHANGED raised
          ELSE /\ report' = [ran |-> TRUE, ok |-> FALSE, count |-> 0, invalid |-> 0,
                             warned |-> FALSE]
               /\ Exit("Exception")
    /\ UNCHANGED <<csv, cleaned, df, stations, stations0, temp_stations, work, before>>

\* main, lines 252-254: verify_data_load, then the run completes
verify_data_load ==
    /\ pc = "verify"
    /\ events' = Append(events, "verify")
    /\ \E ok \in BOOLEAN :
          report' =
            IF ok
            THEN [ran |-> TRUE, ok |-> TRUE, count |-> Cardinality(stations),
                  invalid |-> Cardinality(NullCoordinates(stations)),
                  warned |-> Cardinality(NullCoordinates(stations)) > 0]
            ELSE [ran |-> TRUE, ok |-> FALSE, count |-> 0, invalid |-> 0,
                  warned |-> FALSE]
    /\ pc' = "finished"
    /\ status' = 0
    /\ UNCHANGED <<csv, cleaned, df, stations, stations0, temp_stations, work,
                   before, raised>>

\* the script is started again against the same database
start ==
    /\ pc \in {"finished", "exited"}
    /\ pc' = "connect"
    /\ status' = -1
    /\ df' = EmptyFrame
    /\ raised' = ""
    /\ events' = <<>>
    /\ report' = NoReport
    /\ before' = stations
    /\ work' = stations
    /\ temp_stations' = IF temp_stations = "absent" THEN "absent" ELSE "stale"
    /\ csv' = NoFile
    /\ UNCHANGED <<cleaned, stations, stations0>>

Next ==
    \/ create_db_connection
    \/ clean
    \/ bulk_insert
    \/ stage
    \/ merge
    \/ drop
    \/ commit
    \/ verify_data_load
    \/ start

Spec == Init /\ [][Next]_vars

\* ------------------------------------------------------------ the cleaner alone
InitClean ==
    /\ csv \in CsvInputs
    /\ cleaned = NoResult
    /\ pc = "clean"
    /\ status = -1
    /\ df = EmptyFrame
    /\ stations = {}
    /\ stations0 = {}
    /\ temp_stations = "absent"
    /\ work = {}
    /\ before = {}
    /\ raised = ""
    /\ events = <<>>
    /\ report = NoReport

\* load_and_clean_data(csv_file)
call_load_and_clean_data ==
    /\ cleaned.status = "none"
    /\ cleaned' = load_and_clean_data(csv)
    /\ UNCHANGED <<csv, pc, status, df, stations, stations0, temp_stations, work,
                   before, raised, events, report>>

NextClean == call_load_and_clean_data

SpecClean == InitClean /\ [][NextClean]_vars

\* ------------------------------------------------------------ claims: the cleaner
\* what the claims call a parseable integer, number and boolean
ParsesAsInteger(t) == ParseNumber(t).k = "num" /\ ParseNumber(t).n % Scale = 0
ParsesAsNumber(t) == ~IsNull(ParseNumber(t))
ParsesAsBoolean(t) == t \in {TrueText, FalseText, <<"0">>, <<"1">>}

\* the text of a column in line i of the file, empty when the file lacks the column
SourceText(i, col) == IF col \in csv.columns THEN csv.rows[i][col] ELSE <<>>

Survives(i) == \E j \in 1..Len(cleaned.df.rows) : cleaned.df.rows[j].idx = i

\* C1: when load_and_clean_data completes, a line of the file is in the
\* cleaned dataframe if and only if its ID parses as an integer and its
\* latitude and longitude both parse as numbers.
C1_SurvivesIffValid ==
    cleaned.status = "ok" =>
        \A i \in 1..Len(csv.rows) :
            Survives(i) <=> /\ ParsesAsInteger(SourceText(i, "ID"))
                            /\ ParsesAsNumber(SourceText(i, "latitude"))
                            /\ ParsesAsNumber(SourceText(i, "longitude"))

\* C6: in the cleaned dataframe every boolean column that the file has holds
\* true or false in every row, and false wherever the text of the file was
\* missing or no boolean.
C6_BooleanCoercion ==
    cleaned.status = "ok" =>
        \A col \in bool_cols \cap csv.columns :
            \A j \in 1..Len(cleaned.df.rows) :
                LET cell == cleaned.df.rows[j].c[col]
                    text == SourceText(cleaned.df.rows[j].idx, col)
                IN  /\ cell.k = "bool"
                    /\ cell.n \in {0, 1}
                    /\ ~ParsesAsBoolean(text) => cell.n = 0

\* C7: whichever of the recognized columns the file has, load_and_clean_data
\* completes (no ID of the file being infinite), and the cleaned dataframe
\* has exactly the columns of the file that the schema knows.
C7_AnyColumnSubsetCompletes ==
    (/\ cleaned.status # "none"
     /\ \A i \in 1..Len(csv.rows) : ParseNumber(SourceText(i, "ID")).k # "inf")
    => /\ cleaned.status = "ok"
       /\ cleaned.df.columns =
            {column_mapping(c) : c \in csv.columns \cap SourceColumns}

\* ------------------------------------------------------------ claims: the pipeline
Batch == {BatchRows(df)[i] : i \in 1..Len(df.rows)}
RowOf(table, id) == CHOOSE r \in table : r["station_id"].n = id
Returned == pc \in {"verify", "finished"}
Reconciled == Returned /\ "commit" \in {events[i] : i \in 1..Len(events)}
Started(e) == e \in {events[i] : i \in 1..Len(events)}

\* the fields the claims call mutable and non-mutable
MutableFields ==
    {"city", "county", "postal_code", "country", "operator", "is_operational",
     "num_charging_points", "last_verified_date"}
FrozenFields ==
    {"ac_price_huf_kwh", "dc_price_huf_kwh", "time_based_price_huf_min",
     "additional_fees", "usage_cost", "access_comments", "notes", "tesla_type",
     "original_text", "creation_date", "is_free", "is_paid_unspecified",
     "is_inaccessible", "is_pay_at_location", "is_membership_required"}

\* C2: after load_data_to_database has reconciled a batch, every row that was
\* in stations before and whose station_id is in the batch keeps its
\* non-mutable fields and has the mutable fields of the batch's row.
C2_ReconcileFrame ==
    Reconciled =>
        \A old \in before : \A new \in Batch :
            old["station_id"].n = new["station_id"].n =>
                LET now == RowOf(stations, old["station_id"].n)
                IN  /\ \A c \in FrozenFields : now[c] = old[c]
                    /\ \A c \in MutableFields : now[c] = new[c]

\* a batch that collides entirely was reconciled, and it differed from the
\* stored row in a mutable and in a non-mutable field
C2_Witness ==
    /\ Reconciled
    /\ Batch # {}
    /\ \A new \in Batch : new["station_id"].n \in Ids(before)
    /\ \E old \in before : \E new \in Batch :
          /\ old["station_id"].n = new["station_id"].n
          /\ old["city"] # new["city"]
          /\ old["notes"] # new["notes"]
          /\ old["ac_price_huf_kwh"] # new["ac_price_huf_kwh"]

\* two rows of the batch, or a row of the batch and a row of the table, have
\* the same station_id
Collides ==
    /\ ~NullKey(BatchRows(df))
    /\ \/ \E b \in Batch : b["station_id"].n \in Ids(before)
       \/ RepeatedKey(BatchRows(df))

\* C3: loading a batch again into the table that holds exactly that batch
\* completes (unless the scratch-table steps fail) and leaves the row count.
C3_RepeatLoadIdempotent ==
    (/\ Started("insert")
     /\ Batch # {}
     /\ before = Batch
     /\ Cardinality(before) = Len(df.rows))
    => /\ pc = "exited" => raised \notin IntegrityClasses
       /\ Returned => Cardinality(stations) = Cardinality(before)

\* C4: a run never ends with the key violation of the bulk insert: when the
\* batch collides on station_id the fallback runs instead.
C4_KeyViolationFallsBack ==
    (pc = "exited" /\ Collides) => raised \notin IntegrityClasses

\* C5: the fallback is all-or-nothing on stations: until it commits, and when
\* it fails, stations is what it was before, and a failure ends the run with
\* the exception; when it returns, every staged row is in stations, as
\* inserted or with its mutable fields merged.
C5_FallbackAllOrNothing ==
    Started("stage") =>
        /\ pc \in {"merge", "drop", "commit"} => stations = before
        /\ pc = "exited" => stations = before /\ status = 1 /\ raised # ""
        /\ Returned =>
              /\ \A b \in Batch :
                    \E r \in stations :
                        /\ r["station_id"].n = b["station_id"].n
                        /\ b["station_id"].n \notin Ids(before) => r = b
                        /\ \A c \in MutableFields : r[c] = b[c]
              /\ \A r \in before : r["station_id"].n \in Ids(stations)
              /\ Cardinality(stations) = Cardinality(Ids(before) \cup Ids(Batch))

\* the fallback failed after its merge had changed rows inside the transaction
C5_Witness ==
    /\ pc = "exited"
    /\ Started("drop")
    /\ Merge(before, BatchRows(df)) # before

IsPrefix(a, b) == Len(a) <= Len(b) /\ a = SubSeq(b, 1, Len(a))

PrimaryPath == <<"connect", "clean", "insert", "verify">>
FallbackPath ==
    <<"connect", "clean", "insert", "stage", "merge", "drop", "commit", "verify">>

\* the state part of C8
StagesInOrder ==
    /\ IsPrefix(events, PrimaryPath) \/ IsPrefix(events, FallbackPath)
    /\ pc = "exited" => status = 1
    /\ (Started("clean") /\ ~csv.found) =>
          /\ pc = "exited"
          /\ ~Started("insert") /\ ~Started("stage") /\ ~Started("merge")
          /\ stations = before

\* C8: the calls of main start in the order connect, clean, insert (with the
\* fallback's steps), verify; a run that has exited starts nothing more; and
\* when the file is missing the run exits with status 1 and never writes.
C8_Sequential ==
    /\ []StagesInOrder
    /\ [][pc = "exited" => (pc' = "connect" /\ stations' = stations)]_vars

\* the file was missing and the run has ended
C8_Witness == Started("clean") /\ ~csv.found /\ pc = "exited" /\ status = 1

\* the state part of C9
VerifyIsHarmless ==
    /\ pc = "finished" => status = 0 /\ report.ran
    /\ report.invalid > 0 => report.warned /\ pc = "finished" /\ status = 0

\* C9: once load_data_to_database has returned, the run finishes with status
\* 0 whether or not verification failed; verification leaves stations as it
\* is; rows with a null coordinate produce a warning and nothing else.
C9_VerifyNeverFails ==
    /\ []VerifyIsHarmless
    /\ [][pc = "verify" => (pc' = "finished" /\ status' = 0 /\ stations' = stations)]_vars

\* verification failed and the run finished with status 0
C9_Witness == pc = "finished" /\ report.ran /\ ~report.ok /\ status = 0

NonNullKeys(table) ==
    \A r \in table :
        ~IsNull(r["station_id"]) /\ ~IsNull(r["latitude"]) /\ ~IsNull(r["longitude"])

\* C10: if stations had no null station_id, latitude or longitude before the
\* first run, it never has one, and every row the runs persisted was read
\* from an integer ID and two numeric coordinates.
C10_PersistedRowsValid ==
    NonNullKeys(stations0) =>
        /\ NonNullKeys(stations)
        /\ \A r \in stations \ stations0 :
              /\ ParsesAsInteger(r["station_id"].s)
              /\ ParsesAsNumber(r["latitude"].s)
              /\ ParsesAsNumber(r["longitude"].s)

====
